---------------------------- MODULE Spec2Model ----------------------------
(***************************************************************************)
(* Model of the four programs of the repository:                           *)
(*   src/Rag/sementic_se.py      document -> chunks -> nearest-neighbour   *)
(*                               -> answer script                          *)
(*   src/term_mail/model.py      profile validation and the mailing run    *)
(*   src/multi_agent/agentic.py  the three-agent supervisor                *)
(*   src/summarize/model.py      per-chunk summarisation                   *)
(*                                                                         *)
(* Strings are sequences of one-character strings, so that str.split(),    *)
(* str.strip(), " ".join() and re.sub() are computed character by          *)
(* character.                                                              *)
(*                                                                         *)
(* The specifications of the module:                                       *)
(*   ChunkSpec       chunk_texts applied to every bounded text and size    *)
(*   SearchSpec      search_chunks applied to every bounded index, query,k *)
(*   Spec            the RAG script from module load to its last print     *)
(*   ValidateSpec    validate_profile applied to every sampled document    *)
(*   ManagerSpec     manager() from the profile read to the mail           *)
(*   SupervisorSpec  the main block and supervisor_task                    *)
(*   SummarizeSpec   summarize_with_gemini on every bounded chunk list     *)
(***************************************************************************)
EXTENDS Integers, Sequences, FiniteSets

VARIABLES
    \* ---- chunk_texts harness
    t_text,        \* the text argument
    t_source,      \* the source argument
    t_size,        \* the chunk_size_words argument
    t_chunks,      \* the returned list
    t_pc,          \* "idle" | "call" | "returned"
    \* ---- search_chunks harness
    s_chunks,      \* the chunk list the index was built from
    s_index,       \* the vectors held by the index, in insertion order
    s_qvec,        \* what embed_query returns for the query
    s_k,           \* the top_k argument
    s_results,     \* the returned list
    s_pc,          \* "idle" | "call" | "returned"
    \* ---- the script
    pc,            \* position in the module body
    env_key,       \* whether GOOGLE_API_KEY is set after load_dotenv()
    file_paths,    \* line 103
    query,         \* line 109
    path_i,        \* position of the for loop of line 116 (0-based)
    chunks,        \* line 115
    index,         \* line 129: <<>> while unbound, <<vectors>> once built
    retrieved,     \* line 132
    answer,        \* line 143: <<>> while unbound, <<text>> once assigned
    out,           \* what has been printed, as a sequence of tags
    log            \* collaborator and file-system calls made so far, in order

VARIABLES
    \* ---- validate_profile harness (src/term_mail/model.py)
    v_json,            \* the json_data argument, as the document it denotes
    v_result,          \* the returned string, as a sequence of words
    v_pc,              \* "idle" | "call" | "returned"
    \* ---- manager() (src/term_mail/model.py)
    m_pc,              \* position in manager()
    m_env,             \* which of EMAIL_SENDER, EMAIL_PASSWORD are set
    json_result,       \* line 131
    to_email,          \* line 134
    validation_result, \* line 137
    plans,             \* line 142
    subject,           \* lines 144, 147
    body,              \* lines 145, 148
    m_log,             \* agent runs, parses and mail operations so far
    \* ---- supervisor_task() (src/multi_agent/agentic.py)
    u_pc,              \* position in supervisor_task()
    u_prompt,          \* the prompt argument
    news,              \* line 129
    summary,           \* line 134
    u_result,          \* line 139
    u_ret,             \* the value returned at line 143
    u_log,             \* agent runs so far, with their inputs
    \* ---- summarize_with_gemini() (src/summarize/model.py)
    g_pc,              \* position in summarize_with_gemini()
    g_chunks,          \* the chunks argument
    g_i,               \* position of the for loop of line 42 (0-based)
    summaries,         \* line 40
    g_ret,             \* the returned string
    g_log              \* model.invoke calls so far, with their outcome

chunkVars  == <<t_text, t_source, t_size, t_chunks, t_pc>>
searchVars == <<s_chunks, s_index, s_qvec, s_k, s_results, s_pc>>
mainVars   == <<pc, env_key, file_paths, query, path_i, chunks, index,
                retrieved, answer, out, log>>
validateVars   == <<v_json, v_result, v_pc>>
managerVars    == <<m_pc, m_env, json_result, to_email, validation_result,
                    plans, subject, body, m_log>>
supervisorVars == <<u_pc, u_prompt, news, summary, u_result, u_ret, u_log>>
summarizeVars  == <<g_pc, g_chunks, g_i, summaries, g_ret, g_log>>
toolVars       == <<validateVars, managerVars, supervisorVars, summarizeVars>>
vars       == <<chunkVars, searchVars, mainVars, toolVars>>

None == "None"

\* The values the variables of a function hold while it is not the one running.
ValidateIdle ==
    /\ v_json = None /\ v_result = None /\ v_pc = "idle"

ManagerIdle ==
    /\ m_pc = "idle" /\ m_env = None /\ json_result = None /\ to_email = None
    /\ validation_result = None /\ plans = None /\ subject = None
    /\ body = None /\ m_log = <<>>

SupervisorIdle ==
    /\ u_pc = "idle" /\ u_prompt = None /\ news = None /\ summary = None
    /\ u_result = None /\ u_ret = None /\ u_log = <<>>

SummarizeIdle ==
    /\ g_pc = "idle" /\ g_chunks = <<>> /\ g_i = 0 /\ summaries = <<>>
    /\ g_ret = None /\ g_log = <<>>

ToolsIdle ==
    ValidateIdle /\ ManagerIdle /\ SupervisorIdle /\ SummarizeIdle

RagIdle ==
    /\ t_text = <<>> /\ t_source = "" /\ t_size = 0 /\ t_chunks = None /\ t_pc = "idle"
    /\ s_chunks = <<>> /\ s_index = None /\ s_qvec = 0 /\ s_k = 0
    /\ s_results = None /\ s_pc = "idle"
    /\ pc = "idle" /\ env_key = FALSE /\ file_paths = <<>> /\ query = <<>>
    /\ path_i = 0 /\ chunks = <<>> /\ index = <<>> /\ retrieved = <<>>
    /\ answer = <<>> /\ out = <<>> /\ log = <<>>

(***************************************************************************)
(* Bounds                                                                  *)
(***************************************************************************)
MaxTextLen == 6      \* longest text handed to chunk_texts in ChunkSpec
MaxW       == 3      \* largest chunk size tried in ChunkSpec
MaxChunks  == 3      \* most chunks in an index of SearchSpec
MaxK       == 4      \* largest top_k tried in SearchSpec
MaxCoord   == 1      \* embedding coordinates range over 0..MaxCoord
MaxPaths   == 3      \* most comma-separated segments typed at the prompt
MaxList    == 2      \* most chunks handed to summarize_with_gemini

(***************************************************************************)
(* Config (lines 13-14)                                                    *)
(***************************************************************************)
CHUNK_SIZE_WORDS == 250
TOP_K_CHUNKS     == 3

(***************************************************************************)
(* Python string and list primitives                                       *)
(***************************************************************************)
Space      == " "
Newline    == "\n"
Whitespace == {Space, Newline}
Chars      == {"a", "b", Space, Newline}

Min(a, b) == IF a < b THEN a ELSE b

SeqsUpTo(S, n) == UNION {[1..m -> S] : m \in 0..n}

\* str.split() with no argument: the maximal runs of non-whitespace
\* characters, in order; leading, trailing and repeated whitespace give no
\* empty word.
RECURSIVE SplitAcc(_, _, _, _)
SplitAcc(s, i, cur, acc) ==
    IF i > Len(s)
    THEN IF cur = <<>> THEN acc ELSE Append(acc, cur)
    ELSE IF s[i] \in Whitespace
         THEN SplitAcc(s, i + 1, <<>>, IF cur = <<>> THEN acc ELSE Append(acc, cur))
         ELSE SplitAcc(s, i + 1, Append(cur, s[i]), acc)

Split(s) == SplitAcc(s, 1, <<>>, <<>>)

\* sep.join(parts)
RECURSIVE Join(_, _)
Join(sep, parts) ==
    IF parts = <<>> THEN <<>>
    ELSE IF Len(parts) = 1 THEN parts[1]
    ELSE parts[1] \o sep \o Join(sep, Tail(parts))

\* str.strip(): drop leading and trailing whitespace
RECURSIVE LStrip(_)
LStrip(s) ==
    IF s # <<>> /\ s[1] \in Whitespace THEN LStrip(Tail(s)) ELSE s

RECURSIVE RStrip(_)
RStrip(s) ==
    IF s # <<>> /\ s[Len(s)] \in Whitespace
    THEN RStrip(SubSeq(s, 1, Len(s) - 1)) ELSE s

Strip(s) == RStrip(LStrip(s))

\* Faulty variant of Slice: the end index is taken as inclusive-minus-one,
\* so every window loses its last word.
DropLastSlice(xs, i, j) == SubSeq(xs, i + 1, Min(j, Len(xs)) - 1)

\* list[i:j] for 0 <= i <= j (0-based, end exclusive, clamped to the list)
Slice(xs, i, j) == SubSeq(xs, i + 1, Min(j, Len(xs)))

\* Faulty variant of PyRange: a final window shorter than step is dropped.
RECURSIVE SkipTailRange(_, _, _)
SkipTailRange(start, stop, step) ==
    IF start + step > stop THEN <<>>
    ELSE <<start>> \o SkipTailRange(start + step, stop, step)

\* list(range(start, stop, step)) for step > 0
RECURSIVE PyRange(_, _, _)
PyRange(start, stop, step) ==
    IF start >= stop THEN <<>>
    ELSE <<start>> \o PyRange(start + step, stop, step)

(***************************************************************************)
(* chunk_texts (lines 65-70)                                               *)
(***************************************************************************)
chunk_texts(text, source, chunk_size_words) ==
    LET words  == Split(text)
        starts == PyRange(0, Len(words), chunk_size_words)
    IN  [n \in 1..Len(starts) |->
            [text |-> Join(<<Space>>, Slice(words, starts[n], starts[n] + chunk_size_words)),
             meta |-> [source_file |-> source]]]

\* Line 74: the texts of a chunk list
ChunkTextsOf(cs) == [n \in 1..Len(cs) |-> cs[n].text]

SourceNames == {"a.pdf", "B.DOCX"}

\* Every bounded text and size; the other components stay idle.
ChunkInit ==
    /\ t_text \in SeqsUpTo(Chars, MaxTextLen)
    /\ t_source \in SourceNames
    /\ t_size \in 1..MaxW
    /\ t_chunks = None
    /\ t_pc = "call"
    /\ s_chunks = <<>> /\ s_index = None /\ s_qvec = 0 /\ s_k = 0
    /\ s_results = None /\ s_pc = "idle"
    /\ pc = "idle" /\ env_key = FALSE /\ file_paths = <<>> /\ query = <<>>
    /\ path_i = 0 /\ chunks = <<>> /\ index = <<>> /\ retrieved = <<>>
    /\ answer = <<>> /\ out = <<>> /\ log = <<>>
    /\ ToolsIdle

ChunkCall ==
    /\ t_pc = "call"
    /\ t_chunks' = chunk_texts(t_text, t_source, t_size)
    /\ t_pc' = "returned"
    /\ UNCHANGED <<t_text, t_source, t_size, searchVars, mainVars, toolVars>>


(***************************************************************************)
(* The Embedder and the index library                                      *)
(*                                                                         *)
(* An embedding is a point of 0..MaxCoord (dimension 1); the Embedder is a *)
(* black box, so the vector it returns for a text is any such point.       *)
(***************************************************************************)
Vec == 0..MaxCoord

\* IndexFlatL2's metric: squared Euclidean distance, no normalisation
SqDist(v, q) == (v - q) * (v - q)

\* The distance the library writes into the slots it has no neighbour for
\* (the largest float32, about 3.4e38; here the largest integer TLC holds).
FLT_MAX == 2147483647

IsInjective(f) == \A a, b \in DOMAIN f : f[a] = f[b] => a = b

\* index.search(query_emb, top_k) of line 88, for one query row: the rows
\* (indices[0], distances[0]) zipped.  The library always returns top_k
\* slots.  The first min(top_k, ntotal) hold distinct 0-based labels of the
\* nearest vectors in non-decreasing distance; the remaining slots hold
\* label -1 and distance FLT_MAX.  Which of several equidistant vectors is
\* kept, and in what order, is left to the library: every choice is
\* allowed here.
index_search(vecs, q, k) ==
    LET n == Len(vecs)
        m == Min(k, n)
        d(l) == SqDist(vecs[l + 1], q)
        Picks == {p \in [1..m -> 0..(n - 1)] :
                    /\ IsInjective(p)
                    /\ \A a \in 1..(m - 1) : d(p[a]) <= d(p[a + 1])
                    /\ \A l \in 0..(n - 1) :
                          (\A a \in 1..m : p[a] # l) => \A a \in 1..m : d(p[a]) <= d(l)}
    IN  {[a \in 1..k |-> IF a <= m THEN [idx |-> p[a], dist |-> d(p[a])]
                         ELSE [idx |-> -1, dist |-> FLT_MAX]] : p \in Picks}

\* The position (1-based) of the object xs[i] of Python, for a 0-based i
\* that may be negative: xs[-1] is the last element.
PyPos(xs, i) == IF i < 0 THEN Len(xs) + i + 1 ELSE i + 1

(***************************************************************************)
(* search_chunks (lines 84-96)                                             *)
(***************************************************************************)
\* Faulty variant of MakeResults: the distance is turned into a similarity
\* (its sign flipped), so larger is better.
NegatedScoreResults(hits, chunkList) ==
    [a \in 1..Len(hits) |->
        [chunk |-> chunkList[PyPos(chunkList, hits[a].idx)],
         ref   |-> PyPos(chunkList, hits[a].idx),
         score |-> 0 - hits[a].dist]]

\* Lines 90-96.  "chunk" is the object chunks[idx]; ref is the position of
\* that object in chunks (its identity: two chunks may have equal contents).
MakeResults(hits, chunkList) ==
    [a \in 1..Len(hits) |->
        [chunk |-> chunkList[PyPos(chunkList, hits[a].idx)],
         ref   |-> PyPos(chunkList, hits[a].idx),
         score |-> hits[a].dist]]

\* The lists search_chunks may return, given what embed_query returned.
search_chunks(vecs, query_emb, chunkList, top_k) ==
    {MakeResults(hits, chunkList) : hits \in index_search(vecs, query_emb, top_k)}

ChunkTexts == {<<"a">>, <<"b">>}

MkChunk(txt, source) == [text |-> txt, meta |-> [source_file |-> source]]

SearchInit ==
    /\ \E n \in 1..MaxChunks :
          /\ s_chunks \in [1..n -> {MkChunk(t, "doc.pdf") : t \in ChunkTexts}]
          /\ s_index \in [1..n -> Vec]
    /\ s_qvec \in Vec
    /\ s_k \in 1..MaxK
    /\ s_results = None
    /\ s_pc = "call"
    /\ t_text = <<>> /\ t_source = "" /\ t_size = 0 /\ t_chunks = None /\ t_pc = "idle"
    /\ pc = "idle" /\ env_key = FALSE /\ file_paths = <<>> /\ query = <<>>
    /\ path_i = 0 /\ chunks = <<>> /\ index = <<>> /\ retrieved = <<>>
    /\ answer = <<>> /\ out = <<>> /\ log = <<>>
    /\ ToolsIdle

SearchCall ==
    /\ s_pc = "call"
    /\ s_results' \in search_chunks(s_index, s_qvec, s_chunks, s_k)
    /\ s_pc' = "returned"
    /\ UNCHANGED <<s_chunks, s_index, s_qvec, s_k, chunkVars, mainVars, toolVars>>

(***************************************************************************)
(* The file system and the terminal                                        *)
(***************************************************************************)
\* The paths that can be typed.  Every one but P_gone exists.
P_a    == <<"d", "/", "a", ".", "p", "d", "f">>
P_B    == <<"B", ".", "D", "O", "C", "X">>
P_t    == <<"t", ".", "x", "l", "s", "x">>
P_n    == <<"n", ".", "t", "x", "t">>
P_bad  == <<"k", ".", "p", "d", "f">>
P_gone == <<"g", ".", "p", "d", "f">>
PathNames == {P_a, P_B, P_t, P_n, P_bad, P_gone}

\* An empty spreadsheet cell (None in Python).
NoCell == <<"None">>

\* What each existing file holds: whether its reader can decode it, and what
\* the reader yields (page texts, paragraph texts, or rows of cells).
FS == [p \in PathNames \ {P_gone} |->
        CASE p = P_a   -> [readable |-> TRUE,  parts |-> << <<"a", Space, "b">>, <<>>, <<"b">> >>]
          [] p = P_B   -> [readable |-> TRUE,  parts |-> << <<"b">>, <<Space>> >>]
          [] p = P_t   -> [readable |-> TRUE,  parts |-> << <<NoCell, NoCell>>, <<NoCell>> >>]
          [] p = P_n   -> [readable |-> TRUE,  parts |-> << <<"a">> >>]
          [] p = P_bad -> [readable |-> FALSE, parts |-> <<>>]]

\* os.path.exists(path)
Exists(path) == path \in DOMAIN FS

UpperLetters == <<"A", "B", "C", "D", "E", "F", "G", "H", "I", "J", "K", "L", "M",
                  "N", "O", "P", "Q", "R", "S", "T", "U", "V", "W", "X", "Y", "Z">>
LowerLetters == <<"a", "b", "c", "d", "e", "f", "g", "h", "i", "j", "k", "l", "m",
                  "n", "o", "p", "q", "r", "s", "t", "u", "v", "w", "x", "y", "z">>

\* str.lower()
Lower(s) ==
    [a \in 1..Len(s) |->
        IF \E u \in 1..Len(UpperLetters) : UpperLetters[u] = s[a]
        THEN LowerLetters[CHOOSE u \in 1..Len(UpperLetters) : UpperLetters[u] = s[a]]
        ELSE s[a]]

\* str.endswith(suffix)
EndsWith(s, suffix) ==
    /\ Len(s) >= Len(suffix)
    /\ SubSeq(s, Len(s) - Len(suffix) + 1, Len(s)) = suffix

\* os.path.basename(path): what follows the last "/"
RECURSIVE Basename(_)
Basename(path) ==
    IF \E a \in 1..Len(path) : path[a] = "/"
    THEN Basename(Tail(path))
    ELSE path

\* str.split(",") : every segment between commas, empty ones included
RECURSIVE SplitCommaAcc(_, _, _, _)
SplitCommaAcc(s, i, cur, acc) ==
    IF i > Len(s) THEN Append(acc, cur)
    ELSE IF s[i] = ","
         THEN SplitCommaAcc(s, i + 1, <<>>, Append(acc, cur))
         ELSE SplitCommaAcc(s, i + 1, Append(cur, s[i]), acc)

SplitComma(s) == SplitCommaAcc(s, 1, <<>>, <<>>)

IsNonEmpty(s) == s # <<>>
IsNonBlank(s) == Strip(s) # <<>>
IsCell(c)     == c # NoCell

StripAll(segs) == [a \in 1..Len(segs) |-> Strip(segs[a])]

\* Faulty variant of ParsePaths: blank segments are kept.
UnfilteredParsePaths(raw) == StripAll(SplitComma(raw))

\* Lines 102-103: split on commas, strip each segment, drop the blank ones.
ParsePaths(raw) == StripAll(SelectSeq(SplitComma(raw), IsNonBlank))

\* What can be typed at the first prompt: lines of one to MaxPaths paths,
\* each preceded by a space; lines without any path; and lines where blank
\* and empty segments surround a path.
PathLines    == {Join(<<",">>, segs) :
                    segs \in SeqsUpTo({<<Space>> \o p : p \in PathNames}, MaxPaths) \ {<<>>}}
BlankLines   == {<<>>, <<Space>>, <<",">>, <<Space, ",", Newline>>}
MixedLines   == {<<Space, ",">> \o p \o <<",">> : p \in PathNames}
RawFileLines == PathLines \cup BlankLines \cup MixedLines

\* What can be typed at the second prompt.
RawQueries   == {<<>>, <<Space, Newline>>, <<Space, "a", Space, "b", Newline>>}

\* What the Answerer can return as result.content.
Responses == {<<Space, Newline>>, <<Newline, "a", Space, "b", Space>>}

(***************************************************************************)
(* File text extraction (lines 36-62)                                      *)
(***************************************************************************)
\* A call either returns a value or raises.
Returned(v) == [raised |-> FALSE, value |-> v]
Raised      == [raised |-> TRUE,  value |-> <<>>]

\* Lines 36-38: the page texts that are not empty, joined by newlines.
extract_text_from_pdf(f) ==
    IF ~f.readable THEN Raised
    ELSE Returned(Join(<<Newline>>, SelectSeq(f.parts, IsNonEmpty)))

\* Lines 40-42: the paragraphs that are not blank, joined by newlines.
extract_text_from_docx(f) ==
    IF ~f.readable THEN Raised
    ELSE Returned(Join(<<Newline>>, SelectSeq(f.parts, IsNonBlank)))

\* Lines 44-50: per row the non-None cells joined by a space; rows joined by
\* newlines.
extract_text_from_xlsx(f) ==
    IF ~f.readable THEN Raised
    ELSE Returned(Join(<<Newline>>,
            [r \in 1..Len(f.parts) |-> Join(<<Space>>, SelectSeq(f.parts[r], IsCell))]))

\* Lines 52-62.  The readers raise on content they cannot decode and
\* nothing here catches it.
extract_text(file_path) ==
    LET name == Lower(file_path)
        f    == FS[file_path]
    IN  IF EndsWith(name, <<".", "p", "d", "f">>) THEN extract_text_from_pdf(f)
        ELSE IF EndsWith(name, <<".", "d", "o", "c", "x">>) THEN extract_text_from_docx(f)
        ELSE IF EndsWith(name, <<".", "x", "l", "s", "x">>) THEN extract_text_from_xlsx(f)
        ELSE Returned(<<>>)

(***************************************************************************)
(* The script (lines 16-33 and 99-154)                                     *)
(***************************************************************************)
Call(name, arg, ok, ret) == [call |-> name, arg |-> arg, ok |-> ok, ret |-> ret]
Line(tag, val) == [tag |-> tag, val |-> val]

Init ==
    /\ pc = "load_env"
    /\ env_key \in BOOLEAN
    /\ file_paths = <<>> /\ query = <<>> /\ path_i = 0 /\ chunks = <<>>
    /\ index = <<>> /\ retrieved = <<>> /\ answer = <<>>
    /\ out = <<>> /\ log = <<>>
    /\ t_text = <<>> /\ t_source = "" /\ t_size = 0 /\ t_chunks = None /\ t_pc = "idle"
    /\ s_chunks = <<>> /\ s_index = None /\ s_qvec = 0 /\ s_k = 0
    /\ s_results = None /\ s_pc = "idle"
    /\ ToolsIdle

\* Faulty variant of LoadEnv: the key is never looked at.
UncheckedLoadEnv ==
    /\ pc = "load_env"
    /\ pc' = "load_models"
    /\ UNCHANGED <<env_key, file_paths, query, path_i, chunks, index, retrieved,
                   answer, out, log, chunkVars, searchVars, toolVars>>

\* Lines 17-25: the key is read; without it the module raises RuntimeError.
LoadEnv ==
    /\ pc = "load_env"
    /\ pc' = IF env_key THEN "load_models" ELSE "raised_nokey"
    /\ UNCHANGED <<env_key, file_paths, query, path_i, chunks, index, retrieved,
                   answer, out, log, chunkVars, searchVars, toolVars>>

\* Lines 29-33: both handles are constructed and the embedder is called
\* once on "Hello world!", its vector printed.
LoadModels ==
    /\ pc = "load_models"
    /\ \E ok \in BOOLEAN :
          /\ log' = log \o << Call("GoogleGenerativeAIEmbeddings", <<>>, TRUE, <<>>),
                              Call("embed_query", "Hello world!", ok, <<>>) >>
                        \o (IF ok THEN << Call("ChatGoogleGenerativeAI", <<>>, TRUE, <<>>) >>
                            ELSE <<>>)
          /\ out' = out \o << Line("info", "loading") >>
                        \o (IF ok THEN << Line("vector", <<>>) >> ELSE <<>>)
          /\ pc' = IF ok THEN "ask_files" ELSE "raised_load"
    /\ UNCHANGED <<env_key, file_paths, query, path_i, chunks, index, retrieved,
                   answer, chunkVars, searchVars, toolVars>>

\* Lines 100-107.
AskFiles ==
    /\ pc = "ask_files"
    /\ \E raw \in RawFileLines :
          /\ log' = Append(log, Call("input", "files", TRUE, raw))
          /\ file_paths' = ParsePaths(raw)
          /\ IF file_paths' = <<>>
             THEN /\ out' = out \o << Line("banner", <<>>), Line("error", "No files provided.") >>
                  /\ pc' = "exit_nofiles"
             ELSE /\ out' = Append(out, Line("banner", <<>>))
                  /\ pc' = "ask_query"
    /\ UNCHANGED <<env_key, query, path_i, chunks, index, retrieved, answer,
                   chunkVars, searchVars, toolVars>>

\* Lines 109-115.
AskQuery ==
    /\ pc = "ask_query"
    /\ \E raw \in RawQueries :
          /\ log' = Append(log, Call("input", "question", TRUE, raw))
          /\ query' = Strip(raw)
          /\ IF query' = <<>>
             THEN /\ out' = Append(out, Line("error", "No question provided."))
                  /\ pc' = "exit_noquery"
             ELSE /\ out' = Append(out, Line("info", "extracting"))
                  /\ pc' = "loop"
    /\ chunks' = <<>>
    /\ path_i' = 0
    /\ UNCHANGED <<env_key, file_paths, index, retrieved, answer, chunkVars, searchVars, toolVars>>

\* Faulty variant of ExtendChunks: the list is assigned, not extended.
OverwriteChunks(cs, text, path) ==
    IF Strip(text) # <<>>
    THEN chunk_texts(text, Basename(path), CHUNK_SIZE_WORDS)
    ELSE cs

\* Lines 121-122: the chunk list after a file whose text was extracted.
ExtendChunks(cs, text, path) ==
    IF Strip(text) # <<>>
    THEN cs \o chunk_texts(text, Basename(path), CHUNK_SIZE_WORDS)
    ELSE cs

\* Lines 116-122: one iteration of the loop over file_paths.
LoopStep ==
    /\ pc = "loop"
    /\ path_i < Len(file_paths)
    /\ LET path == file_paths[path_i + 1]
       IN  IF ~Exists(path)
           THEN /\ log' = Append(log, Call("exists", path, TRUE, FALSE))
                /\ out' = Append(out, Line("warning", path))
                /\ chunks' = chunks
                /\ path_i' = path_i + 1
                /\ pc' = "loop"
           ELSE LET r == extract_text(path)
                IN  /\ log' = log \o << Call("exists", path, TRUE, TRUE),
                                        Call("open", path, TRUE, <<>>),
                                        Call("extract_text", path, ~r.raised, r.value) >>
                    /\ out' = out
                    /\ IF r.raised
                       THEN /\ pc' = "raised_extract"
                            /\ UNCHANGED <<chunks, path_i>>
                       ELSE /\ chunks' = ExtendChunks(chunks, r.value, path)
                            /\ path_i' = path_i + 1
                            /\ pc' = "loop"
    /\ UNCHANGED <<env_key, file_paths, query, index, retrieved, answer,
                   chunkVars, searchVars, toolVars>>

\* Lines 124-128: after the loop.
LoopEnd ==
    /\ pc = "loop"
    /\ path_i = Len(file_paths)
    /\ IF chunks = <<>>
       THEN /\ out' = Append(out, Line("error", "No text extracted from files."))
            /\ pc' = "exit_nocontent"
       ELSE /\ out' = Append(out, Line("info", "building"))
            /\ pc' = "build"
    /\ UNCHANGED <<env_key, file_paths, query, path_i, chunks, index, retrieved,
                   answer, log, chunkVars, searchVars, toolVars>>

\* Faulty variant of BuildFailure: the failed build is tried again.
RetryBuild == "build"

\* Where control goes when embed_documents raises inside build_faiss_index:
\* nothing catches it, the script ends with the traceback.
BuildFailure == "raised_build"

\* Lines 129-131 with build_faiss_index (lines 73-82).
Build ==
    /\ pc = "build"
    /\ LET texts == ChunkTextsOf(chunks)
       IN  \/ /\ log' = Append(log, Call("embed_documents", texts, FALSE, <<>>))
              /\ pc' = BuildFailure
              /\ UNCHANGED <<index, out>>
           \/ \E vecs \in [1..Len(chunks) -> Vec] :
                 /\ log' = Append(log, Call("embed_documents", texts, TRUE, vecs))
                 /\ index' = <<vecs>>
                 /\ out' = Append(out, Line("info", "searching"))
                 /\ pc' = "search"
    /\ UNCHANGED <<env_key, file_paths, query, path_i, chunks, retrieved, answer,
                   chunkVars, searchVars, toolVars>>

\* Lines 132-134 with search_chunks (lines 84-96).
Search ==
    /\ pc = "search"
    /\ \/ /\ log' = Append(log, Call("embed_query", query, FALSE, <<>>))
          /\ pc' = "raised_search"
          /\ UNCHANGED <<retrieved, out>>
       \/ \E q \in Vec :
             /\ log' = Append(log, Call("embed_query", query, TRUE, q))
             /\ retrieved' \in search_chunks(index[1], q, chunks, TOP_K_CHUNKS)
             /\ out' = Append(out, Line("info", "qa"))
             /\ pc' = "answer"
    /\ UNCHANGED <<env_key, file_paths, query, path_i, chunks, index, answer,
                   chunkVars, searchVars, toolVars>>

\* Lines 135-140: the prompt.
Prompt(results, question) ==
    [context  |-> Join(<<Newline, Newline>>, [a \in 1..Len(results) |-> results[a].chunk.text]),
     question |-> question]

\* Faulty variant of AnswerOf: the response is used as it comes.
UntrimmedAnswer(content) == content

\* Line 143.
AnswerOf(content) == Strip(content)

\* Lines 135-143.
Answer ==
    /\ pc = "answer"
    /\ LET prompt == Prompt(retrieved, query)
       IN  \/ /\ log' = Append(log, Call("llm.invoke", prompt, FALSE, <<>>))
              /\ pc' = "raised_invoke"
              /\ UNCHANGED answer
           \/ \E content \in Responses :
                 /\ log' = Append(log, Call("llm.invoke", prompt, TRUE, content))
                 /\ answer' = <<AnswerOf(content)>>
                 /\ pc' = "report"
    /\ UNCHANGED <<env_key, file_paths, query, path_i, chunks, index, retrieved,
                   out, chunkVars, searchVars, toolVars>>

\* Lines 145-154.
Report ==
    /\ pc = "report"
    /\ out' = out
              \o << Line("answer_header", <<>>),
                    IF answer[1] # <<>> THEN Line("answer", answer[1])
                    ELSE Line("no_answer", <<>>),
                    Line("chunks_header", TOP_K_CHUNKS) >>
              \o [a \in 1..Len(retrieved) |->
                    Line("chunk", [source_file |-> retrieved[a].chunk.meta.source_file,
                                   score       |-> retrieved[a].score,
                                   text        |-> retrieved[a].chunk.text])]
    /\ pc' = "done"
    /\ UNCHANGED <<env_key, file_paths, query, path_i, chunks, index, retrieved,
                   answer, log, chunkVars, searchVars, toolVars>>

Next ==
    \/ LoadEnv
    \/ LoadModels
    \/ AskFiles
    \/ AskQuery
    \/ LoopStep
    \/ LoopEnd
    \/ Build
    \/ Search
    \/ Answer
    \/ Report

Spec == Init /\ [][Next]_vars

(***************************************************************************)
(* src/term_mail/model.py: validate_profile                                *)
(*                                                                         *)
(* A JSON document is what json.loads makes of it: nothing (malformed), a  *)
(* value that is not an object, or an object whose four fields each hold a *)
(* tagged JSON value.  A Python string built from parts is the sequence of *)
(* its parts, cut so that every occurrence of the word manager() looks for *)
(* is a part of its own; `word in text` is then membership among the parts.*)
(***************************************************************************)
AgeAbove  == 25
AgeBelow  == 50
MinSalary == 450000
MinCibil  == 700

JAbsent   == [t |-> "absent"]
JNull     == [t |-> "null"]
JInt(n)   == [t |-> "int", n |-> n]
JFloat(w) == [t |-> "float", whole |-> w]      \* the number w + 0.5
JStr(s)   == [t |-> "str", s |-> s]

\* The strings int() reads as a decimal literal, with their value.
DecimalValue == [s \in {"30"} |-> AgeAbove + 5]

StrContains(text, word) == \E i \in DOMAIN text : text[i] = word

\* int(x): an int is itself, a float is truncated, a string is parsed or
\* rejected with a message that quotes it, None is a TypeError.
PyInt(v) ==
    CASE v.t = "int"   -> [ok |-> TRUE, n |-> v.n, msg |-> <<>>]
      [] v.t = "float" -> [ok |-> TRUE, n |-> v.whole, msg |-> <<>>]
      [] v.t = "str"   ->
            IF v.s \in DOMAIN DecimalValue
            THEN [ok |-> TRUE, n |-> DecimalValue[v.s], msg |-> <<>>]
            ELSE [ok |-> FALSE, n |-> 0,
                  msg |-> <<"invalid literal for int() with base 10: '", v.s, "'">>]
      [] OTHER         ->
            [ok |-> FALSE, n |-> 0,
             msg |-> <<"int() argument must be a string, a bytes-like object or a real number, not 'NoneType'">>]

\* data.get(key, default)
Get(data, key, default) ==
    IF data[key].t = "absent" THEN default ELSE data[key]

valid_jobs == {"IT", "Govt", "Bank", "Doctor", "Military"}

AgeFailed ==
    <<"Not eligible: Age criteria failed \n The age should be between 25 and 50.">>
JobFailed ==
    <<"Not eligible: Job type criteria failed \n The job type should be one of the following:IT,Govt,Bank,Doctor,Military.">>
SalaryFailed ==
    <<"Not eligible: Salary criteria failed \n The salary should be at least 450000    .">>
CibilFailed ==
    <<"Not eligible: CIBIL score criteria failed \n The CIBIL score should be at least 700.">>
EligibleMessage ==
    <<"This profile is ", "Eligible", " for 1cr term-insurance.">>

ValidationError(e) == <<"Validation error: ">> \o e

validate_profile(json_data) ==
    IF json_data.kind = "malformed"
    THEN ValidationError(<<"Expecting value: line 1 column 1 (char 0)">>)
    ELSE IF json_data.kind # "object"
    THEN ValidationError(<<"'list' object has no attribute 'get'">>)
    ELSE
      LET data     == json_data.fields
          age      == PyInt(Get(data, "age", JInt(0)))
          job_type == Get(data, "jobType", JStr(""))
          salary   == PyInt(Get(data, "salary", JInt(0)))
          cibil    == PyInt(Get(data, "cibilscore", JInt(0)))
      IN  IF ~age.ok THEN ValidationError(age.msg)
          ELSE IF ~salary.ok THEN ValidationError(salary.msg)
          ELSE IF ~cibil.ok THEN ValidationError(cibil.msg)
          ELSE IF ~(AgeAbove < age.n /\ age.n < AgeBelow) THEN AgeFailed
          ELSE IF ~(job_type.t = "str" /\ job_type.s \in valid_jobs) THEN JobFailed
          ELSE IF salary.n < MinSalary THEN SalaryFailed
          ELSE IF cibil.n < MinCibil THEN CibilFailed
          ELSE EligibleMessage

\* The documents validate_profile is applied to.
AgeValues ==
    {JAbsent, JNull, JInt(AgeAbove), JInt(AgeAbove + 1), JInt(AgeBelow - 1),
     JInt(AgeBelow), JFloat(AgeAbove), JStr("30"), JStr("Eligible")}
JobValues ==
    {JAbsent, JNull, JStr("IT"), JStr("Military"), JStr("Clerk"), JStr("it")}
SalaryValues ==
    {JAbsent, JInt(MinSalary - 1), JInt(MinSalary), JStr("abc")}
CibilValues ==
    {JAbsent, JNull, JInt(MinCibil - 1), JInt(MinCibil)}

Profiles ==
    [age : AgeValues, jobType : JobValues, salary : SalaryValues,
     cibilscore : CibilValues]

Documents ==
    {[kind |-> "malformed", fields |-> <<>>], [kind |-> "array", fields |-> <<>>]}
        \cup {[kind |-> "object", fields |-> f] : f \in Profiles}

ValidateInit ==
    /\ v_json \in Documents
    /\ v_result = None
    /\ v_pc = "call"
    /\ ManagerIdle /\ SupervisorIdle /\ SummarizeIdle
    /\ RagIdle

ValidateCall ==
    /\ v_pc = "call"
    /\ v_result' = validate_profile(v_json)
    /\ v_pc' = "returned"
    /\ UNCHANGED <<v_json, managerVars, supervisorVars, summarizeVars,
                   chunkVars, searchVars, mainVars>>

ValidateNext == ValidateCall
ValidateSpec == ValidateInit /\ [][ValidateNext]_vars

(***************************************************************************)
(* src/term_mail/model.py: manager() and send_email                        *)
(*                                                                         *)
(* The three agents are language-model loops: what an agent returns is any *)
(* text of a small set, or the run raises.  The profile agent's text is    *)
(* held as the document json.loads makes of it.                            *)
(***************************************************************************)
Op(op, arg, ok) == [op |-> op, arg |-> arg, ok |-> ok]

\* What profile_agent.run may return (line 131).
ProfileOutputs ==
    {[kind |-> "malformed", email |-> JAbsent],
     [kind |-> "array", email |-> JAbsent]}
        \cup {[kind |-> "object", email |-> e] :
                 e \in {JAbsent, JNull, JStr(""), JStr("a@b.c")}}

\* What validation_agent.run may return (line 137).
ValidationOutputs ==
    {EligibleMessage, AgeFailed, CibilFailed,
     ValidationError(PyInt(JStr("Eligible")).msg),
     <<"The profile does not qualify.">>}

\* What term_plan_agent.run may return (line 142).
PlanOutputs == {<<"Plan A, Plan B">>, <<>>}

\* Faulty variant of Truthy: only None counts as no address.
NotNone(v) == v.t # "null"

\* `if to_email:` for a JSON value (line 150).
Truthy(v) == v.t = "str" /\ v.s # ""

ManagerInit ==
    /\ m_pc = "profile"
    /\ m_env \in [sender : BOOLEAN, password : BOOLEAN, port_ok : BOOLEAN]
    /\ json_result = None /\ to_email = None /\ validation_result = None
    /\ plans = None /\ subject = None /\ body = None
    /\ m_log = <<>>
    /\ ValidateIdle /\ SupervisorIdle /\ SummarizeIdle
    /\ RagIdle

\* Line 131: the profile agent runs.
ReadProfile ==
    /\ m_pc = "profile"
    /\ \/ /\ m_log' = Append(m_log, Op("profile_agent.run", <<>>, FALSE))
          /\ m_pc' = "raised_profile"
          /\ UNCHANGED json_result
       \/ \E r \in ProfileOutputs :
             /\ json_result' = r
             /\ m_log' = Append(m_log, Op("profile_agent.run", <<>>, TRUE))
             /\ m_pc' = "parse"
    /\ UNCHANGED <<m_env, to_email, validation_result, plans, subject, body,
                   validateVars, supervisorVars, summarizeVars,
                   chunkVars, searchVars, mainVars>>

\* Lines 133-134: json.loads and profile_data.get("email"), both outside any
\* try.
ParseProfile ==
    /\ m_pc = "parse"
    /\ m_log' = Append(m_log, Op("json.loads", <<>>, json_result.kind # "malformed"))
    /\ CASE json_result.kind = "malformed" ->
                m_pc' = "raised_json" /\ UNCHANGED to_email
         [] json_result.kind = "array" ->
                m_pc' = "raised_get" /\ UNCHANGED to_email
         [] OTHER ->
                /\ to_email' = Get(json_result, "email", JNull)
                /\ m_pc' = "validate"
    /\ UNCHANGED <<m_env, json_result, validation_result, plans, subject, body,
                   validateVars, supervisorVars, summarizeVars,
                   chunkVars, searchVars, mainVars>>

\* Line 137: the validation agent runs on the profile text.
Validate ==
    /\ m_pc = "validate"
    /\ \/ /\ m_log' = Append(m_log, Op("validation_agent.run", <<>>, FALSE))
          /\ m_pc' = "raised_validate"
          /\ UNCHANGED validation_result
       \/ \E r \in ValidationOutputs :
             /\ validation_result' = r
             /\ m_log' = Append(m_log, Op("validation_agent.run", <<>>, TRUE))
             /\ m_pc' = "decide"
    /\ UNCHANGED <<m_env, json_result, to_email, plans, subject, body,
                   validateVars, supervisorVars, summarizeVars,
                   chunkVars, searchVars, mainVars>>

\* Lines 141-145: the eligible branch runs the plan agent.
FetchPlans ==
    /\ m_pc = "decide"
    /\ StrContains(validation_result, "Eligible")
    /\ \/ /\ m_log' = Append(m_log, Op("term_plan_agent.run", <<>>, FALSE))
          /\ m_pc' = "raised_plans"
          /\ UNCHANGED <<plans, subject, body>>
       \/ \E r \in PlanOutputs :
             /\ plans' = r
             /\ subject' = "Your 1cr Term Insurance Eligibility & Best Plans"
             /\ body' = <<"Congratulations! You are eligible for 1cr term insurance. Here are the best plan providers:\n\n">> \o r
             /\ m_log' = Append(m_log, Op("term_plan_agent.run", <<>>, TRUE))
             /\ m_pc' = "mail"
    /\ UNCHANGED <<m_env, json_result, to_email, validation_result,
                   validateVars, supervisorVars, summarizeVars,
                   chunkVars, searchVars, mainVars>>

\* Lines 146-148: the other branch.
Reject ==
    /\ m_pc = "decide"
    /\ ~StrContains(validation_result, "Eligible")
    /\ subject' = "Your 1cr Term Insurance Eligibility Result"
    /\ body' = <<"Sorry, you are not eligible for 1cr term insurance. Reason:\n">> \o validation_result
    /\ m_pc' = "mail"
    /\ UNCHANGED <<m_env, json_result, to_email, validation_result, plans, m_log,
                   validateVars, supervisorVars, summarizeVars,
                   chunkVars, searchVars, mainVars>>

\* Lines 150-153 with send_email (102-126): no address, a bad SMTP_PORT
\* (line 104 raises), missing credentials (line 110 returns), or one SMTP
\* session that delivers or whose failure is logged.
Mail ==
    /\ m_pc = "mail"
    /\ IF ~Truthy(to_email)
       THEN m_pc' = "done" /\ UNCHANGED m_log
       ELSE IF ~m_env.port_ok
       THEN /\ m_log' = Append(m_log, Op("send_email", <<>>, FALSE))
            /\ m_pc' = "raised_port"
       ELSE IF ~(m_env.sender /\ m_env.password)
       THEN /\ m_log' = Append(m_log, Op("send_email", <<>>, TRUE))
            /\ m_pc' = "done"
       ELSE \E delivered \in BOOLEAN :
               /\ m_log' = m_log \o
                     <<Op("send_email", <<>>, TRUE),
                       Op("sendmail", <<to_email.s, subject>>, delivered)>>
               /\ m_pc' = "done"
    /\ UNCHANGED <<m_env, json_result, to_email, validation_result, plans,
                   subject, body,
                   validateVars, supervisorVars, summarizeVars,
                   chunkVars, searchVars, mainVars>>

ManagerNext ==
    \/ ReadProfile
    \/ ParseProfile
    \/ Validate
    \/ FetchPlans
    \/ Reject
    \/ Mail

ManagerSpec == ManagerInit /\ [][ManagerNext]_vars

(***************************************************************************)
(* src/multi_agent/agentic.py: supervisor_task and the main block          *)
(*                                                                         *)
(* An agent run returns any text of a small set, or raises; a text is the  *)
(* sequence of its parts.                                                  *)
(***************************************************************************)
Run(agent, input, ok, ret) ==
    [agent |-> agent, input |-> input, ok |-> ok, ret |-> ret]

Prompts     == {<<>>, <<"ai news">>, <<"markets">>}
AgentTexts  == {<<>>, <<"t1">>, <<"t2">>}

\* f"Summarize this: {news}" (line 134)
SummarizePrompt(text) == <<"Summarize this: ">> \o text

\* Faulty variant of WriterInput: the writer is handed the raw news.
RawNewsInput(news_, summary_) == news_

\* The argument of writer_agent.run (line 139).
WriterInput(news_, summary_) == summary_

SupervisorInit ==
    /\ u_pc = "input"
    /\ u_prompt = None /\ news = None /\ summary = None /\ u_result = None
    /\ u_ret = None /\ u_log = <<>>
    /\ ValidateIdle /\ ManagerIdle /\ SummarizeIdle
    /\ RagIdle

\* Line 150: the prompt is read.
AskPrompt ==
    /\ u_pc = "input"
    /\ u_prompt' \in Prompts
    /\ u_pc' = "research"
    /\ UNCHANGED <<news, summary, u_result, u_ret, u_log,
                   validateVars, managerVars, summarizeVars,
                   chunkVars, searchVars, mainVars>>

\* Lines 128-130.
Research ==
    /\ u_pc = "research"
    /\ \/ /\ u_log' = Append(u_log, Run("Research", u_prompt, FALSE, <<>>))
          /\ u_pc' = "raised_research"
          /\ UNCHANGED news
       \/ \E r \in AgentTexts :
             /\ news' = r
             /\ u_log' = Append(u_log, Run("Research", u_prompt, TRUE, r))
             /\ u_pc' = "summarize"
    /\ UNCHANGED <<u_prompt, summary, u_result, u_ret,
                   validateVars, managerVars, summarizeVars,
                   chunkVars, searchVars, mainVars>>

\* Lines 133-135.
CleanSummarize ==
    /\ u_pc = "summarize"
    /\ LET input == SummarizePrompt(news)
       IN  \/ /\ u_log' = Append(u_log, Run("Clean & Summarize", input, FALSE, <<>>))
              /\ u_pc' = "raised_summarize"
              /\ UNCHANGED summary
           \/ \E r \in AgentTexts :
                 /\ summary' = r
                 /\ u_log' = Append(u_log, Run("Clean & Summarize", input, TRUE, r))
                 /\ u_pc' = "write"
    /\ UNCHANGED <<u_prompt, news, u_result, u_ret,
                   validateVars, managerVars, summarizeVars,
                   chunkVars, searchVars, mainVars>>

\* Lines 138-140.
Write ==
    /\ u_pc = "write"
    /\ LET input == WriterInput(news, summary)
       IN  \/ /\ u_log' = Append(u_log, Run("Writer", input, FALSE, <<>>))
              /\ u_pc' = "raised_write"
              /\ UNCHANGED u_result
           \/ \E r \in AgentTexts :
                 /\ u_result' = r
                 /\ u_log' = Append(u_log, Run("Writer", input, TRUE, r))
                 /\ u_pc' = "return"
    /\ UNCHANGED <<u_prompt, news, summary, u_ret,
                   validateVars, managerVars, summarizeVars,
                   chunkVars, searchVars, mainVars>>

\* Lines 143 and 151-152: the result is returned and printed.
Return ==
    /\ u_pc = "return"
    /\ u_ret' = u_result
    /\ u_pc' = "returned"
    /\ UNCHANGED <<u_prompt, news, summary, u_result, u_log,
                   validateVars, managerVars, summarizeVars,
                   chunkVars, searchVars, mainVars>>

SupervisorNext ==
    \/ AskPrompt
    \/ Research
    \/ CleanSummarize
    \/ Write
    \/ Return

SupervisorSpec == SupervisorInit /\ [][SupervisorNext]_vars

(***************************************************************************)
(* src/summarize/model.py: clean_text and summarize_with_gemini            *)
(*                                                                         *)
(* Texts are sequences of characters, so the three substitutions and the   *)
(* strip of clean_text are computed character by character.                *)
(***************************************************************************)
Pipe       == "|"
Dot        == "."
Return_    == "\r"
Digits     == {"1", "2"}
LineBreaks == {Return_, Newline}

SetMin(S) == CHOOSE x \in S : \A y \in S : x <= y
SetMax(S) == CHOOSE x \in S : \A y \in S : x >= y

\* Last position of the line that position i is on ('.' stops at "\n").
LineEnd(text, i) ==
    LET nl == {k \in i..Len(text) : text[k] = Newline}
    IN  IF nl = {} THEN Len(text) ELSE SetMin(nl) - 1

\* The last pipe after position i on the same line, 0 when there is none.
ClosingPipe(text, i) ==
    LET c == {j \in (i + 1)..LineEnd(text, i) : text[j] = Pipe}
    IN  IF c = {} THEN 0 ELSE SetMax(c)

\* re.sub(r'\|.*\|', '', text) from position i on (line 21): leftmost pipe
\* that has a later pipe on its line, up to the last such pipe.
RECURSIVE RemoveTables(_, _)
RemoveTables(text, i) ==
    IF i > Len(text) THEN <<>>
    ELSE IF text[i] = Pipe /\ ClosingPipe(text, i) # 0
    THEN RemoveTables(text, ClosingPipe(text, i) + 1)
    ELSE <<text[i]>> \o RemoveTables(text, i + 1)

\* Last position of the run of digits that starts at position i.
RunEnd(text, i) ==
    LET stops == {k \in i..Len(text) : text[k] \notin Digits}
    IN  IF stops = {} THEN Len(text) ELSE SetMin(stops) - 1

\* re.sub(r'\d+\.', '', text) from position i on (line 22): a run of digits
\* goes together with the dot that follows it, and stays when none does.
RECURSIVE RemoveNumbers(_, _)
RemoveNumbers(text, i) ==
    IF i > Len(text) THEN <<>>
    ELSE IF text[i] \in Digits
    THEN LET e == RunEnd(text, i)
         IN  IF e < Len(text) /\ text[e + 1] = Dot
             THEN RemoveNumbers(text, e + 2)
             ELSE SubSeq(text, i, e) \o RemoveNumbers(text, e + 1)
    ELSE <<text[i]>> \o RemoveNumbers(text, i + 1)

\* re.sub(r'[\r\n]+', ' ', text) from position i on (line 23).
RECURSIVE CollapseBreaks(_, _)
CollapseBreaks(text, i) ==
    IF i > Len(text) THEN <<>>
    ELSE IF text[i] \in LineBreaks
    THEN (IF i > 1 /\ text[i - 1] \in LineBreaks THEN <<>> ELSE <<Space>>)
             \o CollapseBreaks(text, i + 1)
    ELSE <<text[i]>> \o CollapseBreaks(text, i + 1)

clean_text(text) ==
    Strip(CollapseBreaks(RemoveNumbers(RemoveTables(text, 1), 1), 1))

\* Line 48.
SummaryPrompt(cleaned) ==
    <<"Summarize the following text in the same language within 100 words, Keep it concise and informative:\n\n">>
        \o cleaned

\* The chunks handed to summarize_with_gemini.
SampleChunks ==
    {<<>>, <<Space, Newline>>, <<"a">>, <<Pipe, "a", Pipe>>,
     <<"1", "2", Dot, Return_, Newline>>, <<"1", Dot, "a", Newline, "b">>,
     <<Pipe, Newline, Pipe, "1">>, <<"a", Pipe, "b", Pipe, "2", Dot, Pipe, Space>>}

\* response.content of a successful model.invoke.
Contents == {<<"s">>, <<"t", Dot>>}

Invoke(chunk, arg, ok, ret) ==
    [chunk |-> chunk, arg |-> arg, ok |-> ok, ret |-> ret]

\* Faulty variant of OnInvokeFailure: a placeholder is appended.
PlaceholderOnFailure(summaries_) == Append(summaries_, <<"[", "]">>)

\* Lines 53-56: the except branch only prints.
OnInvokeFailure(summaries_) == summaries_

SummarizeInit ==
    /\ g_pc = "construct"
    /\ g_chunks \in SeqsUpTo(SampleChunks, MaxList)
    /\ g_i = 0 /\ summaries = <<>> /\ g_ret = None /\ g_log = <<>>
    /\ ValidateIdle /\ ManagerIdle /\ SupervisorIdle
    /\ RagIdle

\* Lines 39-40: the model handle is constructed, outside any try.
Construct ==
    /\ g_pc = "construct"
    /\ g_pc' \in {"loop", "raised_construct"}
    /\ UNCHANGED <<g_chunks, g_i, summaries, g_ret, g_log,
                   validateVars, managerVars, supervisorVars,
                   chunkVars, searchVars, mainVars>>

\* Lines 42-56: one turn of the for loop.
SummarizeStep ==
    /\ g_pc = "loop"
    /\ g_i < Len(g_chunks)
    /\ g_i' = g_i + 1
    /\ LET cleaned == clean_text(g_chunks[g_i + 1])
           prompt  == SummaryPrompt(cleaned)
       IN  IF cleaned = <<>>
           THEN UNCHANGED <<summaries, g_log>>
           ELSE \/ /\ g_log' = Append(g_log, Invoke(g_i + 1, prompt, FALSE, <<>>))
                   /\ summaries' = OnInvokeFailure(summaries)
                \/ \E r \in Contents :
                      /\ g_log' = Append(g_log, Invoke(g_i + 1, prompt, TRUE, r))
                      /\ summaries' = Append(summaries, r)
    /\ UNCHANGED <<g_pc, g_chunks, g_ret,
                   validateVars, managerVars, supervisorVars,
                   chunkVars, searchVars, mainVars>>

\* Line 58.
Finish ==
    /\ g_pc = "loop"
    /\ g_i = Len(g_chunks)
    /\ g_ret' = Join(<<Space>>, summaries)
    /\ g_pc' = "returned"
    /\ UNCHANGED <<g_chunks, g_i, summaries, g_log,
                   validateVars, managerVars, supervisorVars,
                   chunkVars, searchVars, mainVars>>

SummarizeNext ==
    \/ Construct
    \/ SummarizeStep
    \/ Finish

SummarizeSpec == SummarizeInit /\ [][SummarizeNext]_vars

(***************************************************************************)
(* The harness specifications                                              *)
(***************************************************************************)
ChunkNext == ChunkCall
ChunkSpec == ChunkInit /\ [][ChunkNext]_vars

SearchNext == SearchCall
SearchSpec == SearchInit /\ [][SearchNext]_vars

(***************************************************************************)
(* Claims about chunk_texts (ChunkSpec)                                    *)
(***************************************************************************)
\* C1: chunk_texts is lossless and order-preserving: the chunk texts joined
\* in order (by a space) and split on whitespace give exactly the word
\* sequence of the text.
C1_Lossless ==
    t_pc = "returned" =>
        Split(Join(<<Space>>, ChunkTextsOf(t_chunks))) = Split(t_text)

C1_Witness ==
    /\ t_pc = "returned"
    /\ Len(t_chunks) >= 2
    /\ t_text[1] \in Whitespace
    /\ \E a \in 1..(Len(t_text) - 1) :
          t_text[a] \in Whitespace /\ t_text[a + 1] \in Whitespace

CeilDiv(n, w) == (n + w - 1) \div w

\* C2: a text of n words and a size W > 0 give ceil(n/W) consecutive
\* non-overlapping chunks: chunk j holds words (j-1)W+1 .. min(jW, n), so
\* every chunk but the last holds W words and the last holds 1..W; every
\* chunk carries the given source file name; a text without words gives
\* the empty list.
C2_Windows ==
    t_pc = "returned" =>
        LET words == Split(t_text)
            n     == Len(words)
        IN  /\ Len(t_chunks) = CeilDiv(n, t_size)
            /\ \A j \in 1..Len(t_chunks) :
                  /\ Split(t_chunks[j].text) =
                        SubSeq(words, (j - 1) * t_size + 1, Min(j * t_size, n))
                  /\ j < Len(t_chunks) => Len(Split(t_chunks[j].text)) = t_size
                  /\ Len(Split(t_chunks[j].text)) \in 1..t_size
                  /\ t_chunks[j].meta.source_file = t_source
            /\ n = 0 => t_chunks = <<>>

C2_Witness ==
    /\ t_pc = "returned"
    /\ t_size = 2
    /\ Len(Split(t_text)) = 3
    /\ Len(t_chunks) = 2
    /\ Len(Split(t_chunks[2].text)) = 1

(***************************************************************************)
(* Claims about search_chunks (SearchSpec)                                 *)
(***************************************************************************)
\* C3: search_chunks returns at most k results, each result's chunk is a
\* member of the chunk list the index was built from, and the scores are
\* non-decreasing.
C3_SearchBounded ==
    s_pc = "returned" =>
        /\ Len(s_results) <= s_k
        /\ \A a \in 1..Len(s_results) :
              \E c \in 1..Len(s_chunks) : s_results[a].chunk = s_chunks[c]
        /\ \A a \in 1..(Len(s_results) - 1) :
              s_results[a].score <= s_results[a + 1].score

C3_Witness ==
    /\ s_pc = "returned"
    /\ s_k >= 2
    /\ s_k < Len(s_chunks)
    /\ Len(s_results) = s_k
    /\ s_results[1].score < s_results[s_k].score

\* C4: when k is at least the number of indexed chunks, search_chunks
\* returns every indexed chunk exactly once: as many results as chunks, no
\* chunk repeated, no padding entry.
C4_AllChunksOnce ==
    (s_pc = "returned" /\ s_k >= Len(s_chunks)) =>
        /\ Len(s_results) = Len(s_chunks)
        /\ \A c \in 1..Len(s_chunks) :
              Cardinality({a \in 1..Len(s_results) : s_results[a].ref = c}) = 1
        /\ \A a \in 1..Len(s_results) : s_results[a].score # FLT_MAX

(***************************************************************************)
(* Claims about the script (Spec)                                          *)
(***************************************************************************)
CollaboratorCalls == {"embed_query", "embed_documents", "llm.invoke"}
FileCalls         == {"exists", "open", "extract_text"}

CallsNamed(name) == {i \in 1..Len(log) : log[i].call = name}
OutTagged(tag)   == {i \in 1..Len(out) : out[i].tag = tag}

AllWhitespace(s) == \A a \in 1..Len(s) : s[a] \in Whitespace

\* C5: a run in which no chunk is produced ends with the "no usable
\* content" condition, and no Embedder or Answerer call has been made at any
\* earlier point of that run; the index is never built.
C5_NoCollaboratorBeforeNoContent ==
    pc = "exit_nocontent" =>
        /\ \A i \in 1..Len(log) : log[i].call \notin CollaboratorCalls
        /\ index = <<>>

\* The chunks one path should give: those of its text when the file exists
\* and its text is not blank, none otherwise.
ExpectedOf ==
    [p \in PathNames |->
        IF ~Exists(p) THEN <<>>
        ELSE LET r == extract_text(p)
             IN  IF ~r.raised /\ ~AllWhitespace(r.value)
                 THEN chunk_texts(r.value, Basename(p), CHUNK_SIZE_WORDS)
                 ELSE <<>>]

\* The chunks a list of paths should give: those of each path, in path order.
RECURSIVE ExpectedChunks(_)
ExpectedChunks(paths) ==
    IF paths = <<>> THEN <<>>
    ELSE ExpectedOf[Head(paths)] \o ExpectedChunks(Tail(paths))

\* C6: a missing file or a file with whitespace-only text is skipped without
\* aborting the run: the loop never stops at such a path, and the chunk
\* list handed to the index build is exactly the concatenation, in path
\* order, of the chunks of every existing path with non-blank text.
C6_BadPathsSkipped ==
    /\ pc = "loop" => chunks = ExpectedChunks(SubSeq(file_paths, 1, path_i))
    /\ pc \in {"build", "search", "answer", "report", "done",
               "raised_build", "raised_search", "raised_invoke"} =>
          chunks = ExpectedChunks(file_paths)
    /\ \A i \in CallsNamed("embed_documents") :
          log[i].arg = ChunkTextsOf(ExpectedChunks(file_paths))
    /\ pc = "raised_extract" =>
          LET p == file_paths[path_i + 1]
          IN  Exists(p) /\ ~FS[p].readable

C6_Witness ==
    /\ pc = "build"
    /\ Len(file_paths) = 3
    /\ Exists(file_paths[1])
    /\ ~Exists(file_paths[2])
    /\ Exists(file_paths[3])
    /\ Len(chunks) = 2
    /\ chunks[1].meta.source_file # chunks[2].meta.source_file

\* C7: when the Embedder fails while build_faiss_index embeds the chunks,
\* the failure leaves the script at once and nothing is retried: that call
\* is the last call of the run and the only embed_documents call, no index
\* is bound, no search result exists, the Answerer is never called and no
\* answer is printed.
C7_BuildFailurePropagates ==
    \A i \in CallsNamed("embed_documents") :
        ~log[i].ok =>
            /\ i = Len(log)
            /\ pc = "raised_build"
            /\ ~ENABLED Next
            /\ Cardinality(CallsNamed("embed_documents")) = 1
            /\ index = <<>>
            /\ retrieved = <<>>
            /\ answer = <<>>
            /\ CallsNamed("llm.invoke") = {}
            /\ OutTagged("answer") \cup OutTagged("no_answer") \cup OutTagged("answer_header") = {}

C7_Witness ==
    /\ pc = "raised_build"
    /\ Len(chunks) >= 2
    /\ \E i \in CallsNamed("embed_documents") : ~log[i].ok

\* t is s without its leading and trailing whitespace
IsTrimOf(t, s) ==
    /\ t # <<>> => (t[1] \notin Whitespace /\ t[Len(t)] \notin Whitespace)
    /\ \E a \in 0..Len(s) :
          /\ a + Len(t) <= Len(s)
          /\ SubSeq(s, a + 1, a + Len(t)) = t
          /\ AllWhitespace(SubSeq(s, 1, a))
          /\ AllWhitespace(SubSeq(s, a + Len(t) + 1, Len(s)))

\* The lines printed for the retrieved chunks, in order
ChunkLines == [a \in 1..Cardinality(OutTagged("chunk")) |->
                 out[CHOOSE i \in OutTagged("chunk") :
                        Cardinality({j \in OutTagged("chunk") : j <= i}) = a].val]

\* C8: in a run that reaches the answer step the Answerer is called exactly
\* once; the answer is its response without surrounding whitespace; a
\* response that is empty after trimming makes the run complete normally
\* with the "no answer found" line and no answer line, and the retrieved
\* chunks are still reported.
C8_AnswerOnceTrimmed ==
    /\ Cardinality(CallsNamed("llm.invoke")) <= 1
    /\ pc \in {"report", "done", "raised_invoke"} =>
          Cardinality(CallsNamed("llm.invoke")) = 1
    /\ pc = "report" => ENABLED Report
    /\ pc \in {"report", "done"} =>
          \A i \in CallsNamed("llm.invoke") :
              /\ log[i].ok
              /\ IsTrimOf(answer[1], log[i].ret)
              /\ pc = "done" =>
                    /\ IF AllWhitespace(log[i].ret)
                       THEN /\ Cardinality(OutTagged("no_answer")) = 1
                            /\ OutTagged("answer") = {}
                       ELSE /\ OutTagged("no_answer") = {}
                            /\ \A j \in OutTagged("answer") : out[j].val = answer[1]
                            /\ Cardinality(OutTagged("answer")) = 1
                    /\ Len(ChunkLines) = Len(retrieved)
                    /\ \A a \in 1..Len(retrieved) :
                          /\ ChunkLines[a].text = retrieved[a].chunk.text
                          /\ ChunkLines[a].score = retrieved[a].score

C8_Witness ==
    /\ pc = "done"
    /\ \E i \in CallsNamed("llm.invoke") : log[i].ret = <<Space, Newline>>
    /\ answer = << <<>> >>
    /\ OutTagged("no_answer") # {}
    /\ Len(ChunkLines) = TOP_K_CHUNKS

Recognized(path) ==
    \/ EndsWith(Lower(path), <<".", "p", "d", "f">>)
    \/ EndsWith(Lower(path), <<".", "d", "o", "c", "x">>)
    \/ EndsWith(Lower(path), <<".", "x", "l", "s", "x">>)

\* C9: extract_text never raises for an existing file; it returns the empty
\* string when the extension is not .pdf, .docx or .xlsx (compared without
\* regard to case), and also when the extension is recognized but the
\* reader cannot decode the content.
C9_ExtractNeverRaises ==
    \A i \in CallsNamed("extract_text") :
        /\ log[i].ok
        /\ (~Recognized(log[i].arg) \/ ~FS[log[i].arg].readable) => log[i].ret = <<>>

\* No path is typed: the line holds only whitespace and commas
NoPathTyped(raw) == \A a \in 1..Len(raw) : raw[a] \in Whitespace \cup {","}

InputCalls(what) == {i \in CallsNamed("input") : log[i].arg = what}

\* C10: when no file path is supplied or the question is empty, the run
\* reports the input error and stops with no partial processing: from the
\* first prompt on, no file is tested, opened or extracted, no index is
\* built and neither the Embedder nor the Answerer is called.
C10_InputErrorsStop ==
    /\ \A i \in InputCalls("files") :
          NoPathTyped(log[i].ret) <=> pc = "exit_nofiles"
    /\ \A i \in InputCalls("question") :
          AllWhitespace(log[i].ret) <=> pc = "exit_noquery"
    /\ pc \in {"exit_nofiles", "exit_noquery"} =>
          /\ ~ENABLED Next
          /\ out[Len(out)] = Line("error", IF pc = "exit_nofiles" THEN "No files provided."
                                           ELSE "No question provided.")
          /\ Cardinality(OutTagged("error")) = 1
          /\ \A i \in 1..Len(log) :
                (\E j \in CallsNamed("input") : j < i) =>
                    log[i].call \notin CollaboratorCalls \cup FileCalls
          /\ index = <<>>
          /\ chunks = <<>>
          /\ retrieved = <<>>
          /\ answer = <<>>

C10_Witness ==
    /\ pc = "exit_noquery"
    /\ Len(file_paths) >= 2
    /\ \E i \in InputCalls("question") : log[i].ret # <<>>

\* C11: without GOOGLE_API_KEY the start-up raises at once: neither handle
\* has been constructed, no collaborator has been called, nothing has been
\* asked of the user or printed, and nothing runs afterwards.
C11_FailFastWithoutKey ==
    (~env_key /\ pc # "load_env") =>
        /\ pc = "raised_nokey"
        /\ log = <<>>
        /\ out = <<>>
        /\ ~ENABLED Next

C11_Witness ==
    /\ ~env_key
    /\ pc = "raised_nokey"

\* C12: hits whose chunks have identical vectors come back in insertion
\* order.
C12_StableTies ==
    s_pc = "returned" =>
        \A a, b \in 1..Len(s_results) :
            (/\ a < b
             /\ s_results[a].score # FLT_MAX
             /\ s_results[b].score # FLT_MAX
             /\ s_index[s_results[a].ref] = s_index[s_results[b].ref])
                => s_results[a].ref < s_results[b].ref

(***************************************************************************)
(* Claims about validate_profile (ValidateSpec)                            *)
(***************************************************************************)
\* A field the claim counts as an integer, and the integer it stands for.
Integral(v) ==
    v.t \in {"absent", "int"} \/ (v.t = "str" /\ v.s \in DOMAIN DecimalValue)

IntegerOf(v) ==
    IF v.t = "absent" THEN 0
    ELSE IF v.t = "int" THEN v.n ELSE DecimalValue[v.s]

\* C13: validate_profile answers "Eligible" exactly when 25 < age < 50, the
\* job type is one of the five, salary >= 450000 and CIBIL >= 700 (missing
\* fields counting as 0 or empty); otherwise it names the first failing
\* criterion in the order age, job type, salary, CIBIL; malformed JSON and
\* non-integer fields give a "Validation error" string; and only the
\* eligible answer contains the word "Eligible".
C13_ValidateProfile ==
    v_pc = "returned" =>
        LET wellFormed ==
                /\ v_json.kind = "object"
                /\ Integral(v_json.fields.age)
                /\ Integral(v_json.fields.salary)
                /\ Integral(v_json.fields.cibilscore)
            f      == v_json.fields
            ageOk  == AgeAbove < IntegerOf(f.age) /\ IntegerOf(f.age) < AgeBelow
            jobOk  == f.jobType.t = "str" /\ f.jobType.s \in valid_jobs
            payOk  == IntegerOf(f.salary) >= MinSalary
            cibOk  == IntegerOf(f.cibilscore) >= MinCibil
        IN  /\ ~wellFormed => v_result[1] = "Validation error: "
            /\ wellFormed =>
                  v_result = IF ~ageOk THEN AgeFailed
                             ELSE IF ~jobOk THEN JobFailed
                             ELSE IF ~payOk THEN SalaryFailed
                             ELSE IF ~cibOk THEN CibilFailed
                             ELSE EligibleMessage
            /\ StrContains(v_result, "Eligible") <=> v_result = EligibleMessage

(***************************************************************************)
(* Claims about manager() (ManagerSpec)                                    *)
(***************************************************************************)
\* The place of each operation in the order the claim gives.
StepRank ==
    [o \in {"profile_agent.run", "json.loads", "validation_agent.run",
            "term_plan_agent.run", "send_email", "sendmail"} |->
        CASE o = "profile_agent.run"    -> 1
          [] o = "json.loads"           -> 2
          [] o = "validation_agent.run" -> 3
          [] o = "term_plan_agent.run"  -> 4
          [] o = "send_email"           -> 5
          [] OTHER                      -> 6]

OpsNamed(name) == {i \in 1..Len(m_log) : m_log[i].op = name}

StageOrder == <<"Research", "Clean & Summarize", "Writer">>

\* C15: the agents run in the order Research, Clean & Summarize, Writer,
\* each at most once and each on the output of the stage before it; after a
\* stage that raised nothing more runs and nothing is returned; a call that
\* returns has run all three and returns what the Writer returned.
C15_SupervisorPipeline ==
    /\ Len(u_log) <= Len(StageOrder)
    /\ \A i \in 1..Len(u_log) :
          /\ u_log[i].agent = StageOrder[i]
          /\ i < Len(u_log) => u_log[i].ok
    /\ Len(u_log) >= 1 => u_log[1].input = u_prompt
    /\ Len(u_log) >= 2 =>
          /\ Len(u_log[2].input) = 1 + Len(u_log[1].ret)
          /\ SubSeq(u_log[2].input, 2, Len(u_log[2].input)) = u_log[1].ret
    /\ Len(u_log) >= 3 => u_log[3].input = u_log[2].ret
    /\ (u_log # <<>> /\ ~u_log[Len(u_log)].ok) =>
          /\ u_pc \in {"raised_research", "raised_summarize", "raised_write"}
          /\ u_ret = None
          /\ ~ENABLED SupervisorNext
    /\ u_pc = "returned" =>
          /\ Len(u_log) = Len(StageOrder)
          /\ \A i \in 1..Len(u_log) : u_log[i].ok
          /\ u_ret = u_log[3].ret
    /\ u_pc # "returned" => u_ret = None

C15_Witness ==
    /\ u_pc = "returned"
    /\ u_log[1].ret # u_log[2].ret
    /\ u_log[2].ret # u_log[3].ret
    /\ u_prompt # <<>>

(***************************************************************************)
(* Claims about summarize_with_gemini (SummarizeSpec)                      *)
(***************************************************************************)
\* The contents returned by the successful calls of a call history, in order.
RECURSIVE Successes(_)
Successes(calls) ==
    IF calls = <<>> THEN <<>>
    ELSE (IF calls[1].ok THEN <<calls[1].ret>> ELSE <<>>) \o Successes(Tail(calls))

\* The chunks among the first n that are not empty after cleaning.
NonEmptyUpTo(n) == {j \in 1..n : clean_text(g_chunks[j]) # <<>>}

\* C16: of the chunks looked at so far, exactly those that are non-empty
\* after cleaning have been sent to the model, once each and in order,
\* whether their call failed or not; summaries holds the contents of the
\* successful calls in order; a failed call leaves the loop running; and the
\* value returned is those contents joined by single spaces.
C16_PerChunkIsolation ==
    /\ g_pc \in {"idle", "construct", "raised_construct", "loop", "returned"}
    /\ g_pc = "raised_construct" => g_log = <<>>
    /\ Len(g_log) = Cardinality(NonEmptyUpTo(g_i))
    /\ \A a \in 1..Len(g_log) :
          /\ g_log[a].chunk \in NonEmptyUpTo(g_i)
          /\ g_log[a].arg = SummaryPrompt(clean_text(g_chunks[g_log[a].chunk]))
          /\ \A b \in 1..Len(g_log) : a < b => g_log[a].chunk < g_log[b].chunk
    /\ summaries = Successes(g_log)
    /\ (g_pc = "loop" /\ g_i < Len(g_chunks)) => ENABLED SummarizeStep
    /\ g_pc = "returned" =>
          /\ g_i = Len(g_chunks)
          /\ g_ret = Join(<<Space>>, Successes(g_log))
          /\ (\A a \in 1..Len(g_log) : ~g_log[a].ok) => g_ret = <<>>

C16_Witness ==
    /\ g_pc = "returned"
    /\ Len(g_chunks) >= 2
    /\ \E j \in 1..Len(g_chunks) :
          g_chunks[j] # <<>> /\ clean_text(g_chunks[j]) = <<>>
    /\ \E a \in 1..Len(g_log) : ~g_log[a].ok

=============================================================================
